---- MODULE Spec2Model ----
(***************************************************************************)
(* Model of Server/services/aiService.js (Stoic-Mentor): the generative   *)
(* client generateAIResponse / fetchWithTimeout, driven by the hybrid      *)
(* response cascade (rule -> semantic -> generative -> fallback).          *)
(*                                                                         *)
(* Strings are sequences of one-character strings.  A JavaScript value is  *)
(* a record [kind, text] with kind "none" (nothing yet), "null",           *)
(* "string" or "nonstring".                                                *)
(***************************************************************************)
EXTENDS Integers, Sequences, FiniteSets, TLC

\* ---------------------------------------------------------------- bounds
NumInv == 2          \* concurrent requests / invocations
TickMs == 20000      \* granularity of the clock, in ms
MaxCalls == 2        \* cap on the outbound-call counter
MaxPieces == 5       \* length of backend contents, in pieces, for SpecStrip

\* ------------------------------------------------------ program constants
DefaultTimeout == 40000

Inv == 1..NumInv

VARIABLES
  HF_API_KEY,   \* module constant: TRUE iff process.env.HUGGINGFACE_API_KEY is truthy
  stage,        \* stage[i]: position of request i in the cascade
  response,     \* response[i]: the {text, tier} handed to the caller of respond
  responses,    \* responses[i]: number of responses handed to the caller
  pc,           \* pc[i]: position of invocation i of generateAIResponse
  timer,        \* timer[i]: state of the setTimeout started by fetchWithTimeout
  elapsed,      \* elapsed[i]: ms run down on the pending timer of invocation i
  aborted,      \* aborted[i]: controller.signal.aborted of invocation i
  calls,        \* calls[i]: outbound fetch calls issued by invocation i
  result,       \* result[i]: value the invocation returned
  threw,        \* threw[i]: an exception left generateAIResponse
  cause,        \* cause[i]: which failure path the invocation took
  reply         \* reply[i]: what the backend did for invocation i

vars == <<HF_API_KEY, stage, response, responses, pc, timer, elapsed, aborted,
          calls, result, threw, cause, reply>>

\* ------------------------------------------------------------ JS values
NoValue == [kind |-> "none", text |-> <<>>]
NullValue == [kind |-> "null", text |-> <<>>]
Str(s) == [kind |-> "string", text |-> s]
NonString == [kind |-> "nonstring", text |-> <<>>]

\* ------------------------------------------------------------- strings
LineTerminators == {"\n"}
WhiteSpace == {" ", "\n"}

Min(S) == CHOOSE m \in S : \A x \in S : m <= x

\* /<\|.*?\|>/ tried at position p of s: index of the last character of the
\* match, or 0 when the pattern does not match at p.
MatchEnd(s, p) ==
  IF p + 1 <= Len(s) /\ s[p] = "<" /\ s[p + 1] = "|"
  THEN LET Q == {q \in (p + 2)..(Len(s) - 1) :
                    /\ s[q] = "|" /\ s[q + 1] = ">"
                    /\ \A k \in (p + 2)..(q - 1) : s[k] \notin LineTerminators}
       IN IF Q = {} THEN 0 ELSE Min(Q) + 1
  ELSE 0

RECURSIVE ReplaceFrom(_, _)
ReplaceFrom(s, p) ==
  IF p > Len(s) THEN <<>>
  ELSE IF MatchEnd(s, p) # 0 THEN ReplaceFrom(s, MatchEnd(s, p) + 1)
  ELSE <<s[p]>> \o ReplaceFrom(s, p + 1)

\* content.replace(/<\|.*?\|>/g, '')
StripTokens(s) == ReplaceFrom(s, 1)

\* String.prototype.trim
Trim(s) ==
  LET keep == {k \in 1..Len(s) : s[k] \notin WhiteSpace}
  IN IF keep = {} THEN <<>>
     ELSE SubSeq(s, Min(keep), CHOOSE m \in keep : \A x \in keep : x <= m)

\* s has a substring of the form <|...|>
ContainsToken(s) ==
  \E p \in 1..Len(s) : \E q \in (p + 2)..(Len(s) - 1) :
     s[p] = "<" /\ s[p + 1] = "|" /\ s[q] = "|" /\ s[q + 1] = ">"

\* --------------------------------------------------- backend behaviours
\* Bodies the backend can deliver after the response headers.
SampleContents ==
  { <<"a">>,
    <<"<", "|", "x", "|", ">", "a", " ">>,
    <<" ", "<", "|", "|", ">">> }

Bodies ==
  {[json |-> "invalid", content |-> NoValue],      \* not valid JSON
   [json |-> "null", content |-> NoValue],         \* the JSON value null
   [json |-> "object", content |-> NoValue],       \* no choices[0].message.content
   [json |-> "object", content |-> Str(<<>>)],     \* content is ""
   [json |-> "object", content |-> NonString]}     \* content is truthy, not a string
  \cup {[json |-> "object", content |-> Str(c)] : c \in SampleContents}

NoBody == [json |-> "none", content |-> NoValue]
NoReply == [fetch |-> "none", status |-> "none", body |-> NoBody]
Statuses == {"ok", "error"}      \* res.ok of the response; the code never reads it

\* ------------------------------------------------------------ the cascade
Tiers == {"Rule", "Semantic", "Generative", "Fallback"}
NoResponse == [value |-> NoValue, tier |-> "none"]
RuleAnswer == <<"r">>
SemanticAnswer == <<"s">>
FallbackText == <<"f">>

Init ==
  /\ HF_API_KEY \in BOOLEAN
  /\ stage = [i \in Inv |-> "idle"]
  /\ response = [i \in Inv |-> NoResponse]
  /\ responses = [i \in Inv |-> 0]
  /\ pc = [i \in Inv |-> "idle"]
  /\ timer = [i \in Inv |-> "none"]
  /\ elapsed = [i \in Inv |-> 0]
  /\ aborted = [i \in Inv |-> FALSE]
  /\ calls = [i \in Inv |-> 0]
  /\ result = [i \in Inv |-> NoValue]
  /\ threw = [i \in Inv |-> FALSE]
  /\ cause = [i \in Inv |-> "none"]
  /\ reply = [i \in Inv |-> NoReply]

\* --------------------------------------------- generateAIResponse: exits
\* return v
Return(v, c) == [result |-> v, threw |-> FALSE, pc |-> "done", cause |-> c]

\* the catch block: log, return null
OnCatchRethrow(c) == [result |-> NoValue, threw |-> TRUE, pc |-> "done", cause |-> c]
OnCatchRetry(c) == [result |-> NoValue, threw |-> FALSE, pc |-> "idle", cause |-> c]
OnCatchNamed(c) == [result |-> Str(<<c>>), threw |-> FALSE, pc |-> "done", cause |-> c]
OnCatch(c) == Return(NullValue, c)

\* truthiness of data.choices?.[0]?.message?.content
Truthy(v) == v.kind = "nonstring" \/ (v.kind = "string" /\ v.text # <<>>)

\* return content.replace(/<\|.*?\|>/g, '').trim(): a content without
\* .replace raises a TypeError inside the try block
OnContentRaw(content) == Return(content, "none")
OnContent(content) ==
  IF content.kind = "string"
  THEN Return(Str(Trim(StripTokens(content.text))), "none")
  ELSE OnCatch("UpstreamError")

\* const data = await aiRes.json(); if (...content) return ...; return null
OnBody(b) ==
  IF b.json = "invalid" THEN OnCatch("UpstreamError")
  ELSE IF b.json = "null" THEN OnCatch("EmptyResponse")
  ELSE IF Truthy(b.content) THEN OnContent(b.content)
  ELSE Return(NullValue, "EmptyResponse")

\* clearTimeout(id)
ClearTimeoutNoop(t) == t
ClearTimeout(t) == IF t = "pending" THEN "cleared" ELSE t

\* the controllers whose signal the timer callback of invocation i raises
AbortTargetsShared(i) == Inv
AbortTargetsNone(i) == {}
AbortTargets(i) == {i}

Exit(i, x) ==
  /\ result' = [result EXCEPT ![i] = x.result]
  /\ threw' = [threw EXCEPT ![i] = x.threw]
  /\ pc' = [pc EXCEPT ![i] = x.pc]
  /\ cause' = [cause EXCEPT ![i] = x.cause]

\* ------------------------------------------------------------ respond
\* Steps 1 and 2 of the cascade: RuleMatcher.match, a pure synchronous lookup.
Respond(i) ==
  /\ stage[i] = "idle"
  /\ \E rule \in {"Hit", "Miss"} :
       IF rule = "Hit"
       THEN /\ response' = [response EXCEPT ![i] = [value |-> Str(RuleAnswer), tier |-> "Rule"]]
            /\ responses' = [responses EXCEPT ![i] = @ + 1]
            /\ stage' = [stage EXCEPT ![i] = "returned"]
       ELSE /\ stage' = [stage EXCEPT ![i] = "semantic"]
            /\ UNCHANGED <<response, responses>>
  /\ UNCHANGED <<HF_API_KEY, pc, timer, elapsed, aborted, calls, result, threw, cause, reply>>

\* SemanticMatcher.match: Hit, Miss, or EmbeddingError treated as Miss.
SemanticStepNoShortCircuit(i) ==
  /\ stage[i] = "semantic"
  /\ \E sem \in {"Hit", "Miss", "EmbeddingError"} :
       IF sem = "Hit"
       THEN /\ response' = [response EXCEPT ![i] = [value |-> Str(SemanticAnswer), tier |-> "Semantic"]]
            /\ responses' = [responses EXCEPT ![i] = @ + 1]
            /\ stage' = [stage EXCEPT ![i] = "generative"]
       ELSE /\ stage' = [stage EXCEPT ![i] = "generative"]
            /\ UNCHANGED <<response, responses>>
  /\ UNCHANGED <<HF_API_KEY, pc, timer, elapsed, aborted, calls, result, threw, cause, reply>>
SemanticStep(i) ==
  /\ stage[i] = "semantic"
  /\ \E sem \in {"Hit", "Miss", "EmbeddingError"} :
       IF sem = "Hit"
       THEN /\ response' = [response EXCEPT ![i] = [value |-> Str(SemanticAnswer), tier |-> "Semantic"]]
            /\ responses' = [responses EXCEPT ![i] = @ + 1]
            /\ stage' = [stage EXCEPT ![i] = "returned"]
       ELSE /\ stage' = [stage EXCEPT ![i] = "generative"]
            /\ UNCHANGED <<response, responses>>
  /\ UNCHANGED <<HF_API_KEY, pc, timer, elapsed, aborted, calls, result, threw, cause, reply>>

\* Steps 3 and 4: the generative call has returned; text answers, anything
\* else (failure value or exception) falls through to the static fallback.
GenerativeStep(i) ==
  /\ stage[i] = "generative"
  /\ pc[i] = "done"
  /\ response' = [response EXCEPT ![i] =
        IF ~threw[i] /\ result[i].kind \notin {"null", "none"}
        THEN [value |-> result[i], tier |-> "Generative"]
        ELSE [value |-> Str(FallbackText), tier |-> "Fallback"]]
  /\ responses' = [responses EXCEPT ![i] = @ + 1]
  /\ stage' = [stage EXCEPT ![i] = "returned"]
  /\ UNCHANGED <<HF_API_KEY, pc, timer, elapsed, aborted, calls, result, threw, cause, reply>>

\* ------------------------------------------------- generateAIResponse
\* Entry: the key check, then fetchWithTimeout up to its await: a fresh
\* AbortController, setTimeout, fetch issued.
GenerateEntryNoKeyCheck(i) ==
  /\ stage[i] = "generative"
  /\ pc[i] = "idle"
  /\ calls[i] < MaxCalls
  /\ aborted' = [aborted EXCEPT ![i] = FALSE]
  /\ timer' = [timer EXCEPT ![i] = "pending"]
  /\ elapsed' = [elapsed EXCEPT ![i] = 0]
  /\ calls' = [calls EXCEPT ![i] = @ + 1]
  /\ pc' = [pc EXCEPT ![i] = "fetching"]
  /\ UNCHANGED <<result, threw, cause>>
  /\ UNCHANGED <<HF_API_KEY, stage, response, responses, reply>>
GenerateEntry(i) ==
  /\ stage[i] = "generative"
  /\ pc[i] = "idle"
  /\ calls[i] < MaxCalls
  /\ IF ~HF_API_KEY
     THEN /\ Exit(i, Return(NullValue, "NoKey"))
          /\ UNCHANGED <<timer, elapsed, aborted, calls>>
     ELSE /\ aborted' = [aborted EXCEPT ![i] = FALSE]
          /\ timer' = [timer EXCEPT ![i] = "pending"]
          /\ elapsed' = [elapsed EXCEPT ![i] = 0]
          /\ calls' = [calls EXCEPT ![i] = @ + 1]
          /\ pc' = [pc EXCEPT ![i] = "fetching"]
          /\ UNCHANGED <<result, threw, cause>>
  /\ UNCHANGED <<HF_API_KEY, stage, response, responses, reply>>

\* Time passes: every pending timer runs down; a timer that is due fires
\* before the clock moves on.
Tick ==
  /\ \E i \in Inv : timer[i] = "pending"
  /\ \A i \in Inv : timer[i] = "pending" => elapsed[i] < DefaultTimeout
  /\ elapsed' = [i \in Inv |-> IF timer[i] = "pending" THEN elapsed[i] + TickMs ELSE elapsed[i]]
  /\ UNCHANGED <<HF_API_KEY, stage, response, responses, pc, timer, aborted,
                 calls, result, threw, cause, reply>>

\* The timer callback: () => controller.abort()
TimerFires(i) ==
  /\ timer[i] = "pending"
  /\ elapsed[i] >= DefaultTimeout
  /\ timer' = [timer EXCEPT ![i] = "fired"]
  /\ aborted' = [j \in Inv |-> IF j \in AbortTargets(i) THEN TRUE ELSE aborted[j]]
  /\ UNCHANGED <<HF_API_KEY, stage, response, responses, pc, elapsed,
                 calls, result, threw, cause, reply>>

\* The aborted fetch rejects (AbortError): finally clears the timer, the
\* rejection reaches the catch block of generateAIResponse.
FetchAborted(i) ==
  /\ pc[i] = "fetching"
  /\ aborted[i]
  /\ timer' = [timer EXCEPT ![i] = ClearTimeout(@)]
  /\ Exit(i, OnCatch("Timeout"))
  /\ UNCHANGED <<HF_API_KEY, stage, response, responses, elapsed, aborted, calls, reply>>

\* fetch rejects with a network error.
FetchRejectsDisablesKey(i) ==
  /\ pc[i] = "fetching"
  /\ ~aborted[i]
  /\ timer' = [timer EXCEPT ![i] = ClearTimeout(@)]
  /\ reply' = [reply EXCEPT ![i].fetch = "error"]
  /\ Exit(i, OnCatch("UpstreamError"))
  /\ HF_API_KEY' = FALSE
  /\ UNCHANGED <<stage, response, responses, elapsed, aborted, calls>>
FetchRejects(i) ==
  /\ pc[i] = "fetching"
  /\ ~aborted[i]
  /\ timer' = [timer EXCEPT ![i] = ClearTimeout(@)]
  /\ reply' = [reply EXCEPT ![i].fetch = "error"]
  /\ Exit(i, OnCatch("UpstreamError"))
  /\ UNCHANGED <<HF_API_KEY, stage, response, responses, elapsed, aborted, calls>>

\* fetch resolves with the response headers: return res, finally clears the
\* timer, generateAIResponse goes on to await aiRes.json().
FetchResolvesIgnoringSignal(i) ==
  /\ pc[i] = "fetching"
  /\ \E st \in Statuses : reply' = [reply EXCEPT ![i].fetch = "resolved", ![i].status = st]
  /\ timer' = [timer EXCEPT ![i] = ClearTimeout(@)]
  /\ pc' = [pc EXCEPT ![i] = "body"]
  /\ UNCHANGED <<HF_API_KEY, stage, response, responses, elapsed, aborted,
                 calls, result, threw, cause>>
FetchResolves(i) ==
  /\ pc[i] = "fetching"
  /\ ~aborted[i]
  /\ \E st \in Statuses : reply' = [reply EXCEPT ![i].fetch = "resolved", ![i].status = st]
  /\ timer' = [timer EXCEPT ![i] = ClearTimeout(@)]
  /\ pc' = [pc EXCEPT ![i] = "body"]
  /\ UNCHANGED <<HF_API_KEY, stage, response, responses, elapsed, aborted,
                 calls, result, threw, cause>>

\* aiRes.json() settles: the body has been delivered in full.
BodyDelivered(i, B) ==
  /\ pc[i] = "body"
  /\ \E b \in B :
       /\ reply' = [reply EXCEPT ![i].body = b]
       /\ Exit(i, OnBody(b))
  /\ UNCHANGED <<HF_API_KEY, stage, response, responses, timer, elapsed, aborted, calls>>

Next ==
  \E i \in Inv :
    \/ Respond(i)
    \/ SemanticStep(i)
    \/ GenerativeStep(i)
    \/ GenerateEntry(i)
    \/ Tick
    \/ TimerFires(i)
    \/ FetchAborted(i)
    \/ FetchRejects(i)
    \/ FetchResolves(i)
    \/ BodyDelivered(i, Bodies)

Spec == Init /\ [][Next]_vars

TypeOK ==
  /\ HF_API_KEY \in BOOLEAN
  /\ \A i \in Inv :
       /\ stage[i] \in {"idle", "semantic", "generative", "returned"}
       /\ pc[i] \in {"idle", "fetching", "body", "done"}
       /\ timer[i] \in {"none", "pending", "fired", "cleared"}
       /\ aborted[i] \in BOOLEAN
       /\ calls[i] \in 0..MaxCalls

\* The same program with the scheduling of the runtime stated: timers that are
\* due fire, settled promises run their continuations, the cascade takes its
\* steps.  Nothing is assumed of the backend (FetchRejects, FetchResolves and
\* BodyDelivered carry no fairness).
FairSpec ==
  /\ Spec
  /\ WF_vars(Tick)
  /\ \A i \in Inv :
       /\ WF_vars(Respond(i))
       /\ WF_vars(SemanticStep(i))
       /\ WF_vars(GenerativeStep(i))
       /\ WF_vars(GenerateEntry(i))
       /\ WF_vars(TimerFires(i))
       /\ WF_vars(FetchAborted(i))

\* ------------------------------------------- the token filter on its own
Pieces == {<<"<", "|">>, <<"|", ">">>, <<"<">>, <<"|">>, <<"a">>, <<"\n">>, <<" ">>}

RECURSIVE Concats(_)
Concats(n) ==
  IF n = 0 THEN {<<>>}
  ELSE LET S == Concats(n - 1) IN S \cup {s \o p : s \in S, p \in Pieces}

StripBodies == {[json |-> "object", content |-> Str(c)] : c \in Concats(MaxPieces)}

\* Invocation 1 has received the response headers and awaits aiRes.json();
\* the backend content ranges over every string of at most MaxPieces pieces.
InitStrip ==
  /\ HF_API_KEY = TRUE
  /\ stage = [i \in Inv |-> IF i = 1 THEN "generative" ELSE "idle"]
  /\ response = [i \in Inv |-> NoResponse]
  /\ responses = [i \in Inv |-> 0]
  /\ pc = [i \in Inv |-> IF i = 1 THEN "body" ELSE "idle"]
  /\ timer = [i \in Inv |-> IF i = 1 THEN "cleared" ELSE "none"]
  /\ elapsed = [i \in Inv |-> 0]
  /\ aborted = [i \in Inv |-> FALSE]
  /\ calls = [i \in Inv |-> IF i = 1 THEN 1 ELSE 0]
  /\ result = [i \in Inv |-> NoValue]
  /\ threw = [i \in Inv |-> FALSE]
  /\ cause = [i \in Inv |-> "none"]
  /\ reply = [i \in Inv |-> IF i = 1
                THEN [fetch |-> "resolved", status |-> "ok", body |-> NoBody]
                ELSE NoReply]

NextStrip == BodyDelivered(1, StripBodies) \/ GenerativeStep(1)

SpecStrip == InitStrip /\ [][NextStrip]_vars

Failures == {"Timeout", "UpstreamError", "EmptyResponse"}
Done(i) == pc[i] = "done"

\* ================================================================ claims

C2_EventuallyReturns ==
  \A i \in Inv : (pc[i] \in {"fetching", "body"}) ~> Done(i)

\* C3: once fetchWithTimeout has exited (the invocation awaits the body or is
\* done) its timer is not pending, and the abort signal is not raised after
\* the exit.
C3_TimerReleased ==
  /\ [](\A i \in Inv : pc[i] \in {"body", "done"} => timer[i] # "pending")
  /\ [][\A i \in Inv : pc[i] \in {"body", "done"} => aborted'[i] = aborted[i]]_vars

C3_Witness ==
  \E i \in Inv : Done(i) /\ reply[i].fetch = "error" /\ timer[i] = "cleared"

\* C4: no exception leaves generateAIResponse; a network error, an abort, a
\* body that is not JSON and a payload without content all end with null.
C4_NeverThrows ==
  \A i \in Inv :
    /\ ~threw[i]
    /\ Done(i) => result[i].kind \in {"null", "string"}
    /\ (Done(i) /\ (reply[i].fetch = "error" \/ aborted[i]
                    \/ reply[i].body.json \in {"invalid", "null"}
                    \/ (reply[i].body.json = "object" /\ reply[i].body.content.kind # "string")))
         => result[i] = NullValue

C4_Witness ==
  \E i \in Inv : Done(i) /\ reply[i].body.json = "invalid" /\ result[i] = NullValue

\* C5: text returned by generateAIResponse contains no substring <|...|>.
C5_NoControlToken ==
  \A i \in Inv : result[i].kind = "string" => ~ContainsToken(result[i].text)

C7_AtMostOneCall ==
  \A i \in Inv : calls[i] <= 1

C7_Witness ==
  \E i \in Inv : stage[i] = "returned" /\ calls[i] = 1 /\ cause[i] \in Failures

\* C8: the abort signal of an invocation is raised only by its own timer, and
\* an invocation fails by timeout only when its own deadline has elapsed.
C8_AbortIsLocal ==
  \A i \in Inv :
    /\ aborted[i] => timer[i] = "fired"
    /\ cause[i] = "Timeout" => timer[i] = "fired" /\ elapsed[i] >= DefaultTimeout

C8_Witness ==
  \E i, j \in Inv : /\ i # j
                    /\ timer[i] = "fired" /\ aborted[i]
                    /\ pc[j] = "fetching" /\ timer[j] = "pending" /\ ~aborted[j]

\* C9: no step changes the module configuration, no step writes the state of
\* two invocations, and two finished invocations that got the same reply from
\* the backend have the same outcome.
Local(i) == <<pc[i], timer[i], aborted[i], calls[i], result[i], threw[i], cause[i]>>

C9_Stateless ==
  /\ [][HF_API_KEY' = HF_API_KEY]_vars
  /\ [][\A i, j \in Inv : (i # j /\ Local(i)' # Local(i)) => Local(j)' = Local(j)]_vars
  /\ [](\A i, j \in Inv :
          (Done(i) /\ Done(j) /\ calls[i] = 1 /\ calls[j] = 1 /\ aborted[i] = aborted[j]
             /\ reply[i] = reply[j]) => result[i] = result[j])

C9_Witness ==
  \E i, j \in Inv : /\ Done(i) /\ Done(j) /\ HF_API_KEY
                    /\ cause[i] = "Timeout" /\ result[j].kind = "string"

\* C10: a request that has returned has handed its caller exactly one
\* response {text, tier} with a string text and a tier of the cascade; a
\* request that has not returned has handed over nothing.
C10_RespondWellFormed ==
  \A i \in Inv :
    /\ responses[i] <= 1
    /\ stage[i] = "returned" <=> responses[i] = 1
    /\ stage[i] = "returned" => response[i].tier \in Tiers /\ response[i].value.kind = "string"
    /\ stage[i] # "returned" => response[i] = NoResponse

C10_Witness ==
  \E i, j \in Inv : /\ stage[i] = "returned" /\ response[i].tier = "Fallback"
                    /\ cause[i] = "Timeout"
                    /\ stage[j] = "returned" /\ response[j].tier = "Generative"

\* C11: the cascade moves Rule, Semantic, Generative, Fallback in that
\* order, one step at a time; a request answered by the rule or the semantic
\* tier never issues the generative call, and the generative call is entered
\* only after both earlier tiers missed.
StageMoves ==
  {<<"idle", "semantic", "none">>, <<"idle", "returned", "Rule">>,
   <<"semantic", "generative", "none">>, <<"semantic", "returned", "Semantic">>,
   <<"generative", "returned", "Generative">>, <<"generative", "returned", "Fallback">>}

C11_FixedOrderShortCircuit ==
  /\ [](\A i \in Inv :
          /\ (pc[i] # "idle" \/ calls[i] > 0) =>
                /\ stage[i] \in {"generative", "returned"}
                /\ response[i].tier \notin {"Rule", "Semantic"}
          /\ response[i].tier \in {"Rule", "Semantic"} => pc[i] = "idle" /\ calls[i] = 0
          /\ response[i].tier \in {"Generative", "Fallback"} => pc[i] = "done")
  /\ [][\A i \in Inv : stage'[i] # stage[i] =>
            <<stage[i], stage'[i], response'[i].tier>> \in StageMoves]_vars

C11_Witness ==
  \E i, j \in Inv : /\ response[i].tier = "Semantic" /\ calls[i] = 0 /\ pc[i] = "idle"
                    /\ response[j].tier = "Generative" /\ calls[j] = 1

\* C12: a request that reached the generative tier and has returned carries
\* the static fallback text with tier Fallback when the generative call
\* failed, and the generated text with tier Generative when it returned text.
C12_FallbackOnFailure ==
  \A i \in Inv :
    (stage[i] = "returned" /\ Done(i)) =>
      /\ (cause[i] \in Failures \cup {"NoKey"}) =>
            response[i] = [value |-> Str(FallbackText), tier |-> "Fallback"]
      /\ cause[i] = "none" =>
            /\ result[i].kind = "string"
            /\ response[i] = [value |-> result[i], tier |-> "Generative"]

C12_Witness ==
  \E i, j \in Inv : /\ stage[i] = "returned" /\ cause[i] = "EmptyResponse"
                    /\ response[i].tier = "Fallback"
                    /\ stage[j] = "returned" /\ cause[j] = "none" /\ Done(j)
                    /\ response[j] = [value |-> Str(<<"a">>), tier |-> "Generative"]

\* C13: an invocation whose backend answered with an error status ends with
\* the failure value, whatever the body.
C13_ErrorStatusFails ==
  \A i \in Inv : (Done(i) /\ reply[i].status = "error") => result[i] = NullValue

\* C14: a value returned by generateAIResponse that is not the failure value
\* is a non-empty string.
C14_TextNonEmpty ==
  \A i \in Inv : (Done(i) /\ result[i] # NullValue) =>
                    result[i].kind = "string" /\ result[i].text # <<>>

\* C15: per invocation exactly one of timer and response wins: a response
\* (or network error) received means the timer was cleared and the signal
\* never raised; a timer fired means the signal raised, no response taken
\* and no text returned; a cleared timer never fires.
C15_ExactlyOneWins ==
  /\ [](\A i \in Inv :
          /\ reply[i].fetch # "none" => timer[i] = "cleared" /\ ~aborted[i]
          /\ timer[i] = "fired" =>
                aborted[i] /\ reply[i] = NoReply /\ result[i].kind # "string")
  /\ [][\A i \in Inv : timer[i] = "cleared" => timer'[i] = "cleared" /\ ~aborted'[i]]_vars

C15_Witness ==
  \E i, j \in Inv : /\ timer[i] = "fired" /\ Done(i) /\ result[i] = NullValue
                    /\ reply[j].fetch = "resolved" /\ timer[j] = "cleared"
                    /\ elapsed[j] >= DefaultTimeout /\ result[j].kind = "string"

\* C16: without an API key an invocation ends at once with null: no outbound
\* call, no timer, no wait.
C16_NoKeyNoCall ==
  \A i \in Inv :
    ~HF_API_KEY =>
      /\ calls[i] = 0 /\ timer[i] = "none" /\ reply[i] = NoReply
      /\ pc[i] \in {"idle", "done"}
      /\ Done(i) => result[i] = NullValue /\ cause[i] = "NoKey"

C16_Witness ==
  \E i \in Inv : ~HF_API_KEY /\ Done(i) /\ result[i] = NullValue /\ calls[i] = 0

====
